---- MODULE Spec2Model ----
(***************************************************************************)
(* The OAuth callback handler of sites/vjsauth/handler.py (lambda_handler  *)
(* and its helpers) as a state machine.  One invocation is modelled: the   *)
(* inbound CloudFront event is fixed in Init, the handler walks through    *)
(* its steps, the identity provider answers (or does not) while the        *)
(* handler waits in urlopen, and the invocation ends either with a         *)
(* response or with an exception leaving lambda_handler.                   *)
(*                                                                         *)
(* Strings are the program's own strings.  The conversions (unquote,       *)
(* quote_plus, base64.b64decode, bytes.decode, json.loads) are given by    *)
(* their value on every string the model draws, as Python computes it.     *)
(***************************************************************************)
EXTENDS Integers, Sequences, FiniteSets, TLC

VARIABLES
    event,          \* the inbound event (immutable input)
    pc,             \* position of the handler
    params,         \* parse_query_string(querystring)
    config,         \* get_config_from_headers(headers)
    state_data,     \* json.loads(state_json)
    code_verifier,  \* state_data.get("verifier")
    redirect_uri,   \* the callback's own URL, rebuilt from the Host header
    request,        \* the token request handed to urlopen
    exchanges,      \* number of urlopen calls made
    elapsed,        \* seconds the pending urlopen has been blocked (socket timer)
    provider,       \* what urlopen produced
    token_response, \* exchange_token's return value
    exc,            \* the exception in flight, if any
    raisedIn,       \* the function the exception in flight was raised in
    log,            \* the lines printed so far, each as the parts it is made of
    response,       \* the value lambda_handler returned
    _cached_oauth_config,   \* module global: the cached secret, None until populated
    _secrets_client,        \* module global: the Secrets Manager client, None until made
    callers,        \* the calls of get_oauth_config_from_secrets_manager under way
    populated,      \* the first value _cached_oauth_config was given (history)
    alone,          \* how the invocation that ran on its own ended (history)
    parked          \* the locals of the invocation that is not running now

\* What is outside the invocation that is running
instance == <<_cached_oauth_config, _secrets_client, callers, populated, alone, parked>>

vars == <<event, pc, params, config, state_data, code_verifier, redirect_uri,
          request, exchanges, elapsed, provider, token_response, exc, raisedIn,
          log, response, instance>>

(***************************************************************************)
(* Bounds of the model.                                                    *)
(***************************************************************************)
MaxParams == 3      \* most "&"-separated parameters in a query string

(***************************************************************************)
(* Configuration constants (handler.py 39-49).                             *)
(***************************************************************************)
DEFAULT_HOST == "localhost:5173"
DEFAULT_FRONTEND_URL == "http://localhost:5173"
OAUTH_CALLBACK_PATH == "/oauth/callback"
GOOGLE_TOKEN_ENDPOINT == "https://oauth2.googleapis.com/token"
TOKEN_EXCHANGE_TIMEOUT == 4
COOKIE_NAME == "google_oauth_access_token"
COOKIE_MAX_AGE == 7 * 24 * 60 * 60

(***************************************************************************)
(* Python values.                                                          *)
(***************************************************************************)
PyNone == "<None>"                      \* None where a str is expected
NoExc == "none"

Ok(v) == [ok |-> TRUE, exc |-> NoExc, val |-> v]
Raise(e) == [ok |-> FALSE, exc |-> e, val |-> PyNone]

\* bool(x) of a str-or-None value
TruthyStr(x) == x # PyNone /\ x # ""

\* JSON scalars: t is the JSON type, s the text str() gives for the value
Absent == [t |-> "absent", s |-> "None"]
JStr(s) == [t |-> "str", s |-> s]
JNum(s) == [t |-> "num", s |-> s]
\* bool(x) of a value returned by dict.get (absent gives None)
Truthy(x) == (x.t = "str" /\ x.s # "") \/ (x.t = "num" /\ x.s # "0")

FieldNames == {"csrf", "verifier", "access_token", "error"}
NoFields == [n \in FieldNames |-> Absent]
JObject(f) == [t |-> "object", f |-> f]
JList == [t |-> "list", f |-> NoFields]         \* the JSON text []
JNull == [t |-> "null", f |-> NoFields]         \* the JSON text null

(***************************************************************************)
(* String conversions, by their value on the strings of the model.         *)
(***************************************************************************)
\* urllib.parse.unquote: percent-escapes are decoded, "+" is left alone
unquote(s) ==
    CASE s = "%63ode" -> "code"
      [] s = "access%20denied" -> "access denied"
      [] OTHER -> s

\* urllib.parse.quote_plus, as urlencode applies it to each key and value
quote_plus(s) ==
    CASE s = "access denied" -> "access+denied"
      [] OTHER -> s

\* How the frontend reads a query value back (URLSearchParams)
form_decode(s) ==
    CASE s = "access+denied" -> "access denied"
      [] OTHER -> s

\* base64.b64decode(s) with validate=False: characters outside the alphabet
\* are discarded before the padding check
b64decode(s) ==
    CASE s = "abc" -> Raise("binascii.Error")
      [] s = "/w==" -> Ok("\\xff")
      [] s = "bm9qc29u" -> Ok("nojson")
      [] s = "W10=" -> Ok("[]")
      [] s = "e30=" -> Ok("{}")
      [] s = "eyJ2ZXJpZmllciI6IiJ9" -> Ok("{\"verifier\":\"\"}")
      [] s = "eyJ2ZXJpZmllciI6MTIzfQ==" -> Ok("{\"verifier\":123}")
      [] s = "eyJ2ZXJpZmllciI6InYifQ==" -> Ok("{\"verifier\":\"v\"}")
      [] s = "eyJjc3JmIjoieCIsInZlcmlmaWVyIjoidiJ9" -> Ok("{\"csrf\":\"x\",\"verifier\":\"v\"}")
      [] s = "eyJjc3JmIjoieSIsInZlcmlmaWVyIjoidiJ9" -> Ok("{\"csrf\":\"y\",\"verifier\":\"v\"}")
      [] s = "eyJjc3JmIjoieCIsInZlcmlmaWVyIjoidyJ9" -> Ok("{\"csrf\":\"x\",\"verifier\":\"w\"}")
      [] s = "eyJj!!c3JmIjoieCIsInZlcmlmaWVyIjoidiJ9" -> Ok("{\"csrf\":\"x\",\"verifier\":\"v\"}")

\* bytes.decode("utf-8"); "\\xff" is the one byte string that is not UTF-8
utf8_decode(b) ==
    IF b = "\\xff" THEN Raise("UnicodeDecodeError") ELSE Ok(b)

\* json.loads
json_loads(s) ==
    CASE s = "{}" -> Ok(JObject(NoFields))
      [] s = "[]" -> Ok(JList)
      [] s = "null" -> Ok(JNull)
      [] s = "{\"verifier\":\"\"}" ->
            Ok(JObject([NoFields EXCEPT !.verifier = JStr("")]))
      [] s = "{\"verifier\":123}" ->
            Ok(JObject([NoFields EXCEPT !.verifier = JNum("123")]))
      [] s = "{\"verifier\":\"v\"}" ->
            Ok(JObject([NoFields EXCEPT !.verifier = JStr("v")]))
      [] s = "{\"csrf\":\"x\",\"verifier\":\"v\"}" ->
            Ok(JObject([NoFields EXCEPT !.csrf = JStr("x"), !.verifier = JStr("v")]))
      [] s = "{\"csrf\":\"y\",\"verifier\":\"v\"}" ->
            Ok(JObject([NoFields EXCEPT !.csrf = JStr("y"), !.verifier = JStr("v")]))
      [] s = "{\"csrf\":\"x\",\"verifier\":\"w\"}" ->
            Ok(JObject([NoFields EXCEPT !.csrf = JStr("x"), !.verifier = JStr("w")]))
      [] s = "{\"access_token\":\"T1\",\"token_type\":\"Bearer\",\"expires_in\":3599}" ->
            Ok(JObject([NoFields EXCEPT !.access_token = JStr("T1")]))
      [] s = "{\"access_token\":\"\"}" ->
            Ok(JObject([NoFields EXCEPT !.access_token = JStr("")]))
      [] s = "{\"error\":\"invalid_grant\"}" ->
            Ok(JObject([NoFields EXCEPT !.error = JStr("invalid_grant")]))
      [] s = "{\"error\":\"invalid_grant\",\"access_token\":\"T1\"}" ->
            Ok(JObject([NoFields EXCEPT !.error = JStr("invalid_grant"),
                                        !.access_token = JStr("T1")]))
      [] OTHER -> Raise("JSONDecodeError")

(***************************************************************************)
(* The inbound event.                                                      *)
(***************************************************************************)
\* One "&"-separated piece of the raw query string: key, or key=value
Pair(k, v) == [key |-> k, eq |-> TRUE, value |-> v]
Bare(k) == [key |-> k, eq |-> FALSE, value |-> ""]

\* The raw values the `state` parameter is drawn from
StateBlobs ==
    { "abc",                                        \* bad padding
      "/w==",                                       \* not UTF-8
      "bm9qc29u",                                   \* not JSON
      "W10=",                                       \* JSON, not an object
      "e30=",                                       \* {}
      "eyJ2ZXJpZmllciI6IiJ9",                       \* {"verifier":""}
      "eyJ2ZXJpZmllciI6MTIzfQ==",                   \* {"verifier":123}
      "eyJ2ZXJpZmllciI6InYifQ==",                   \* {"verifier":"v"}
      "eyJjc3JmIjoieCIsInZlcmlmaWVyIjoidiJ9",       \* {"csrf":"x","verifier":"v"}
      "eyJjc3JmIjoieSIsInZlcmlmaWVyIjoidiJ9",       \* {"csrf":"y","verifier":"v"}
      "eyJjc3JmIjoieCIsInZlcmlmaWVyIjoidyJ9",       \* {"csrf":"x","verifier":"w"}
      "eyJj!!c3JmIjoieCIsInZlcmlmaWVyIjoidiJ9" }    \* the x/v blob with "!!" inserted

StatePieces == { Pair("state", b) : b \in StateBlobs }
OtherPieces ==
    { Pair("code", "c1"), Pair("code", ""),
      Pair("error", "access%20denied"), Pair("error", ""), Bare("junk") }
Pieces == StatePieces \cup OtherPieces

BoundedSeq(S, n) == UNION { [1..k -> S] : k \in 0..n }

\* Raw query strings: up to MaxParams pieces, at most one of them a state
QueryStrings ==
    { q \in BoundedSeq(Pieces, MaxParams) :
        Cardinality({ i \in DOMAIN q : q[i].key = "state" }) <= 1 }

\* What headers.get(name) can hold
HAbsent == [kind |-> "absent", value |-> ""]        \* no such header
HEmpty == [kind |-> "empty", value |-> ""]          \* []
HValue(v) == [kind |-> "value", value |-> v]        \* [{"key": .., "value": v}]
HNoValue == [kind |-> "novalue", value |-> ""]      \* [{"key": ..}]
HElemNotDict == [kind |-> "elem_not_dict", value |-> ""]  \* ["text"]
HNotList == [kind |-> "not_list", value |-> ""]     \* 5

HeaderNames == {"x-oauth-client-id", "x-oauth-client-secret",
                "x-oauth-frontend-url", "host"}

HeaderEntries(name) ==
    CASE name = "x-oauth-client-id" -> { HValue("client-1"), HElemNotDict }
      [] name = "x-oauth-client-secret" -> { HValue("secret-1") }
      [] name = "x-oauth-frontend-url" ->
            { HValue("https://app.example"), HNotList }
      [] name = "host" ->
            { HAbsent, HValue("app.example"), HElemNotDict }

NoEntries == [n \in HeaderNames |-> HAbsent]
HeaderDicts ==
    { [dict |-> TRUE, entries |-> e] :
        e \in { f \in [HeaderNames -> UNION { HeaderEntries(n) : n \in HeaderNames }] :
                  \A n \in HeaderNames : f[n] \in HeaderEntries(n) } }
HeadersNotDict == [dict |-> FALSE, entries |-> NoEntries]   \* "headers": []

\* request["querystring"]: a str, or something that is not one (5)
QsStr(q) == [str |-> TRUE, pieces |-> q]
QsNotStr == [str |-> FALSE, pieces |-> <<>>]

\* shape "ok": event["Records"][0]["cf"]["request"] is a dict
\* shape "no_request": that lookup raises KeyError (event = {})
\* shape "request_not_dict": the lookup gives a str
IsEvent(e) ==
    \/ \E q \in QueryStrings, h \in HeaderDicts \cup {HeadersNotDict} :
          e = [shape |-> "ok", querystring |-> QsStr(q), headers |-> h]
    \/ \E h \in HeaderDicts :
          e = [shape |-> "ok", querystring |-> QsNotStr, headers |-> h]
    \/ \E s \in {"no_request", "request_not_dict"} :
          e = [shape |-> s, querystring |-> QsStr(<<>>), headers |-> HeadersNotDict]

(***************************************************************************)
(* Helpers of handler.py.                                                  *)
(***************************************************************************)
\* event["Records"][0]["cf"]["request"]
get_request(e) ==
    IF e.shape = "no_request" THEN Raise("KeyError") ELSE Ok(e.shape)

\* request.get("querystring", "") / request.get("headers", {}): a str has no .get
request_get(e) ==
    IF e.shape = "request_not_dict" THEN Raise("AttributeError") ELSE Ok(e.shape)

\* parse_query_string: pieces without "=" are skipped, keys and values are
\* unquoted, a later key overwrites an earlier one
RECURSIVE parse_pieces(_, _, _)
parse_pieces(pieces, i, acc) ==
    IF i > Len(pieces) THEN acc
    ELSE LET p == pieces[i]
             k == unquote(p.key)
             v == unquote(p.value)
         IN  parse_pieces(pieces, i + 1,
                 IF p.eq
                 THEN [n \in DOMAIN acc \cup {k} |-> IF n = k THEN v ELSE acc[n]]
                 ELSE acc)

NoParams == [n \in {} |-> ""]

\* parse_query_string keeping the first value of a repeated key
parse_query_string_first_wins(querystring) ==
    IF ~querystring.str THEN Raise("AttributeError")
    ELSE LET pieces == querystring.pieces
             kv == { i \in DOMAIN pieces : pieces[i].eq }
             earliest(k) == CHOOSE i \in kv :
                            /\ unquote(pieces[i].key) = k
                            /\ \A j \in kv : unquote(pieces[j].key) = k => i <= j
         IN  Ok([k \in { unquote(pieces[i].key) : i \in kv } |->
                    unquote(pieces[earliest(k)].value)])

parse_query_string(querystring) ==
    IF ~querystring.str THEN Raise("AttributeError")     \* 5.split("&")
    ELSE Ok(parse_pieces(querystring.pieces, 1, NoParams))

\* dict.get(key) on the parsed parameters
params_get(p, k) == IF k \in DOMAIN p THEN p[k] ELSE PyNone

\* get_header_value(headers, header_name, default)
get_header_value(headers, header_name, default) ==
    IF ~headers.dict THEN Raise("AttributeError")        \* headers.get
    ELSE LET header_list == headers.entries[header_name]
         IN  CASE header_list.kind \in {"absent", "empty"} -> Ok(default)
               [] header_list.kind = "not_list" -> Raise("TypeError")       \* len(5)
               [] header_list.kind = "elem_not_dict" -> Raise("AttributeError")
               [] header_list.kind = "novalue" -> Ok(default)
               [] header_list.kind = "value" -> Ok(header_list.value)

NoConfig == [client_id |-> PyNone, client_secret |-> PyNone, frontend_url |-> PyNone]

\* get_config_from_headers: the three lookups in the order of the dict display
get_config_from_headers(headers) ==
    LET id == get_header_value(headers, "x-oauth-client-id", "")
        secret == get_header_value(headers, "x-oauth-client-secret", "")
        url == get_header_value(headers, "x-oauth-frontend-url", DEFAULT_FRONTEND_URL)
    IN  IF ~id.ok THEN Raise(id.exc)
        ELSE IF ~secret.ok THEN Raise(secret.exc)
        ELSE IF ~url.ok THEN Raise(url.exc)
        ELSE Ok([client_id |-> id.val, client_secret |-> secret.val,
                 frontend_url |-> url.val])

\* str(e) of the exceptions the handler can meet.  The messages quote Python
\* type and attribute names, a key of the event, or one offending byte; none
\* quotes the text that was being parsed.
str_exc(e) ==
    CASE e = "KeyError" -> "'Records'"
      [] e = "AttributeError" -> "'list' object has no attribute 'get'"
      [] e = "TypeError" -> "object of type 'int' has no len()"
      [] e = "binascii.Error" -> "Incorrect padding"
      [] e = "UnicodeDecodeError" ->
            "'utf-8' codec can't decode byte 0xff in position 0: invalid start byte"
      [] e = "JSONDecodeError" -> "Expecting value: line 1 column 1 (char 0)"
      [] e = "URLError" -> "<urlopen error [Errno -2] Name or service not known>"
      [] e = "timeout" -> "timed out"

\* urllib.parse.urlencode of a dict given as a sequence of <<key, value>>
urlencode(ps) == [i \in DOMAIN ps |-> <<quote_plus(ps[i][1]), quote_plus(ps[i][2])>>]

\* cookie_parts with the Max-Age part left out (a session cookie)
cookie_parts_session(cookie_name, cookie_value, cookie_max_age) ==
    [name |-> cookie_name, value |-> cookie_value, MaxAge |-> -1,
     Path |-> "/", SameSite |-> "Lax", Secure |-> FALSE]

\* The parts of the Set-Cookie value, joined by "; " in the code
cookie_parts(cookie_name, cookie_value, cookie_max_age) ==
    [name |-> cookie_name, value |-> cookie_value, MaxAge |-> cookie_max_age,
     Path |-> "/", SameSite |-> "Lax", Secure |-> FALSE]

\* create_redirect_response setting cache-control only on the response that
\* carries the cookie
create_redirect_response_cacheable(location, ps, cookie_name, cookie_value, cookie_max_age) ==
    [status |-> "302",
     statusDescription |-> "Found",
     location |-> [base |-> location,
                   query |-> IF ps # <<>> THEN urlencode(ps) ELSE <<>>],
     cache_control |-> IF TruthyStr(cookie_name) /\ TruthyStr(cookie_value)
                       THEN "no-cache, no-store, must-revalidate"
                       ELSE PyNone,
     set_cookie |-> IF TruthyStr(cookie_name) /\ TruthyStr(cookie_value)
                    THEN << cookie_parts(cookie_name, cookie_value, cookie_max_age) >>
                    ELSE <<>>]

\* create_redirect_response(location, params, cookie_name, cookie_value,
\* cookie_max_age); params = <<>> stands for None, set_cookie = <<>> for no
\* "set-cookie" header
create_redirect_response(location, ps, cookie_name, cookie_value, cookie_max_age) ==
    [status |-> "302",
     statusDescription |-> "Found",
     location |-> [base |-> location,
                   query |-> IF ps # <<>> THEN urlencode(ps) ELSE <<>>],
     cache_control |-> "no-cache, no-store, must-revalidate",
     set_cookie |-> IF TruthyStr(cookie_name) /\ TruthyStr(cookie_value)
                    THEN << cookie_parts(cookie_name, cookie_value, cookie_max_age) >>
                    ELSE <<>>]

\* error_redirect that also sends a cookie, to clear the one the browser holds
error_redirect_clearing_cookie(location, code) ==
    create_redirect_response(location, << <<"oauth_error", code>> >>,
                             COOKIE_NAME, "deleted", 0)

error_redirect(location, code) ==
    create_redirect_response(location, << <<"oauth_error", code>> >>,
                             PyNone, PyNone, COOKIE_MAX_AGE)

\* decode_state reporting a missing verifier as invalid_state too
decode_state_collapsed(state) ==
    LET raw == b64decode(state)
        text == IF raw.ok THEN utf8_decode(raw.val) ELSE raw
        data == IF text.ok THEN json_loads(text.val) ELSE text
    IN  IF ~data.ok
        THEN [ok |-> FALSE, error |-> "invalid_state", exc |-> data.exc,
              data |-> JNull, verifier |-> Absent]
        ELSE IF data.val.t # "object"
        THEN [ok |-> FALSE, error |-> "invalid_state", exc |-> "AttributeError",
              data |-> data.val, verifier |-> Absent]
        ELSE IF ~Truthy(data.val.f.verifier)
        THEN [ok |-> FALSE, error |-> "invalid_state", exc |-> NoExc,
              data |-> data.val, verifier |-> data.val.f.verifier]
        ELSE [ok |-> TRUE, error |-> "", exc |-> NoExc, data |-> data.val,
              verifier |-> data.val.f.verifier]

\* decode_state reading the verifier from the wrong key of the record
decode_state_wrong_key(state) ==
    LET raw == b64decode(state)
        text == IF raw.ok THEN utf8_decode(raw.val) ELSE raw
        data == IF text.ok THEN json_loads(text.val) ELSE text
    IN  IF ~data.ok
        THEN [ok |-> FALSE, error |-> "invalid_state", exc |-> data.exc,
              data |-> JNull, verifier |-> Absent]
        ELSE IF data.val.t # "object"
        THEN [ok |-> FALSE, error |-> "invalid_state", exc |-> "AttributeError",
              data |-> data.val, verifier |-> Absent]
        ELSE IF ~Truthy(data.val.f.csrf)
        THEN [ok |-> FALSE, error |-> "no_verifier", exc |-> NoExc,
              data |-> data.val, verifier |-> data.val.f.csrf]
        ELSE [ok |-> TRUE, error |-> "", exc |-> NoExc, data |-> data.val,
              verifier |-> data.val.f.csrf]

\* The state-decoding block of lambda_handler (lines 107-124): the parsed
\* record (state_data), the verifier read from it (code_verifier), and the
\* error code of the redirect when the block ends the invocation
\* decode_state turning down a state that carries no csrf value
decode_state_requires_csrf(state) ==
    LET raw == b64decode(state)
        text == IF raw.ok THEN utf8_decode(raw.val) ELSE raw
        data == IF text.ok THEN json_loads(text.val) ELSE text
    IN  IF ~data.ok
        THEN [ok |-> FALSE, error |-> "invalid_state", exc |-> data.exc,
              data |-> JNull, verifier |-> Absent]
        ELSE IF data.val.t # "object"
        THEN [ok |-> FALSE, error |-> "invalid_state", exc |-> "AttributeError",
              data |-> data.val, verifier |-> Absent]
        ELSE IF ~Truthy(data.val.f.csrf)
        THEN [ok |-> FALSE, error |-> "invalid_state", exc |-> NoExc,
              data |-> data.val, verifier |-> Absent]
        ELSE IF ~Truthy(data.val.f.verifier)
        THEN [ok |-> FALSE, error |-> "no_verifier", exc |-> NoExc,
              data |-> data.val, verifier |-> data.val.f.verifier]
        ELSE [ok |-> TRUE, error |-> "", exc |-> NoExc, data |-> data.val,
              verifier |-> data.val.f.verifier]

decode_state(state) ==
    LET raw == b64decode(state)
        text == IF raw.ok THEN utf8_decode(raw.val) ELSE raw
        data == IF text.ok THEN json_loads(text.val) ELSE text
    IN  IF ~data.ok                                    \* state_data is never bound
        THEN [ok |-> FALSE, error |-> "invalid_state", exc |-> data.exc,
              data |-> JNull, verifier |-> Absent]
        ELSE IF data.val.t # "object"                  \* state_data.get raises
        THEN [ok |-> FALSE, error |-> "invalid_state", exc |-> "AttributeError",
              data |-> data.val, verifier |-> Absent]
        ELSE IF ~Truthy(data.val.f.verifier)
        THEN [ok |-> FALSE, error |-> "no_verifier", exc |-> NoExc,
              data |-> data.val, verifier |-> data.val.f.verifier]
        ELSE [ok |-> TRUE, error |-> "", exc |-> NoExc, data |-> data.val,
              verifier |-> data.val.f.verifier]

\* "localhost" in host or "127.0.0.1" in host
mentions_loopback(host) ==
    host \in {"localhost:5173", "127.0.0.1:5173", "notlocalhost.evil.com"}

NoUri == [protocol |-> PyNone, host |-> PyNone, path |-> PyNone]

\* Lines 128-132: f"{protocol}://{host}{OAUTH_CALLBACK_PATH}"
build_redirect_uri(headers) ==
    LET host == get_header_value(headers, "host", DEFAULT_HOST)
    IN  IF ~host.ok THEN Raise(host.exc)
        ELSE Ok([protocol |-> IF mentions_loopback(host.val) THEN "http" ELSE "https",
                 host |-> host.val, path |-> OAUTH_CALLBACK_PATH])

NoRequest == [url |-> PyNone, method |-> PyNone, timeout |-> 0, data |-> <<>>]

\* token_request with the timeout set to the host's 5 s ceiling
token_request_slow(code, verifier, uri, client_id, client_secret) ==
    [url |-> GOOGLE_TOKEN_ENDPOINT, method |-> "POST",
     timeout |-> TOKEN_EXCHANGE_TIMEOUT + 1,
     data |-> << <<"client_id", client_id>>, <<"client_secret", client_secret>>,
                 <<"code", code>>, <<"code_verifier", verifier.s>>,
                 <<"grant_type", "authorization_code">>,
                 <<"redirect_uri", uri>> >>]

\* token_request with the values of code and code_verifier exchanged
token_request_swapped(code, verifier, uri, client_id, client_secret) ==
    [url |-> GOOGLE_TOKEN_ENDPOINT, method |-> "POST",
     timeout |-> TOKEN_EXCHANGE_TIMEOUT,
     data |-> << <<"client_id", client_id>>, <<"client_secret", client_secret>>,
                 <<"code", verifier.s>>, <<"code_verifier", code>>,
                 <<"grant_type", "authorization_code">>,
                 <<"redirect_uri", uri>> >>]

\* exchange_token up to the urlopen call (lines 242-264)
token_request(code, verifier, uri, client_id, client_secret) ==
    [url |-> GOOGLE_TOKEN_ENDPOINT, method |-> "POST",
     timeout |-> TOKEN_EXCHANGE_TIMEOUT,
     data |-> << <<"client_id", client_id>>, <<"client_secret", client_secret>>,
                 <<"code", code>>, <<"code_verifier", verifier.s>>,
                 <<"grant_type", "authorization_code">>,
                 <<"redirect_uri", uri>> >>]

error_result(e) == JObject([NoFields EXCEPT !.error = e])

\* Line 275: what exchange_token prints, given the outcome of urlopen
exchange_token_prints(p) ==
    CASE p.status = "unreachable" ->
            << <<"Token exchange exception: ", str_exc("URLError")>> >>
      [] p.status = "timeout" ->
            << <<"Token exchange exception: ", str_exc("timeout")>> >>
      [] p.status = "200" ->
            LET text == utf8_decode(p.body)
                data == IF text.ok THEN json_loads(text.val) ELSE text
            IN  IF data.ok THEN <<>>
                ELSE << <<"Token exchange exception: ", str_exc(data.exc)>> >>
      [] p.status = "400" -> <<>>

\* exchange_token that does not read the body of an HTTPError
exchange_token_result_generic(p) ==
    CASE p.status \in {"unreachable", "timeout"} ->
            Ok(error_result(JStr("network_error")))
      [] p.status = "200" ->
            LET text == utf8_decode(p.body)
                data == IF text.ok THEN json_loads(text.val) ELSE text
            IN  IF data.ok THEN Ok(data.val)
                ELSE Ok(error_result(JStr("network_error")))
      [] p.status = "400" -> Ok(error_result(JStr("token_exchange_failed")))

\* exchange_token reporting a 2xx body that is no JSON as a failed exchange
exchange_token_result_parse_failed(p) ==
    CASE p.status \in {"unreachable", "timeout"} ->
            Ok(error_result(JStr("network_error")))
      [] p.status = "200" ->
            LET text == utf8_decode(p.body)
                data == IF text.ok THEN json_loads(text.val) ELSE text
            IN  IF data.ok THEN Ok(data.val)
                ELSE Ok(error_result(JStr("token_exchange_failed")))
      [] p.status = "400" ->
            LET text == utf8_decode(p.body)
            IN  IF ~text.ok THEN Raise(text.exc)
                ELSE LET data == json_loads(text.val)
                     IN  IF ~data.ok
                         THEN Ok(error_result(JStr("token_exchange_failed")))
                         ELSE IF data.val.t # "object"
                         THEN Raise("AttributeError")
                         ELSE IF data.val.f.error.t = "absent"
                         THEN Ok(error_result(JStr("token_exchange_failed")))
                         ELSE Ok(error_result(data.val.f.error))

\* exchange_token from the outcome of urlopen onwards (lines 264-276)
exchange_token_result(p) ==
    CASE p.status \in {"unreachable", "timeout"} ->      \* URLError, socket.timeout
            Ok(error_result(JStr("network_error")))
      [] p.status = "200" ->
            LET text == utf8_decode(p.body)
                data == IF text.ok THEN json_loads(text.val) ELSE text
            IN  IF data.ok THEN Ok(data.val)
                ELSE Ok(error_result(JStr("network_error")))
      [] p.status = "400" ->                              \* urllib.error.HTTPError
            LET text == utf8_decode(p.body)               \* outside the inner try
            IN  IF ~text.ok THEN Raise(text.exc)
                ELSE LET data == json_loads(text.val)
                     IN  IF ~data.ok
                         THEN Ok(error_result(JStr("token_exchange_failed")))
                         ELSE IF data.val.t # "object"
                         THEN Raise("AttributeError")     \* error_data.get
                         ELSE IF data.val.f.error.t = "absent"
                         THEN Ok(error_result(JStr("token_exchange_failed")))
                         ELSE Ok(error_result(data.val.f.error))

(***************************************************************************)
(* What urlopen can produce.                                               *)
(***************************************************************************)
Bodies ==
    { "{\"access_token\":\"T1\",\"token_type\":\"Bearer\",\"expires_in\":3599}",
      "{}",
      "{\"access_token\":\"\"}",
      "{\"error\":\"invalid_grant\"}",
      "{\"error\":\"invalid_grant\",\"access_token\":\"T1\"}",
      "[]",
      "null",
      "<html>Bad Gateway</html>",
      "\\xff" }

NotAnswered == [status |-> "none", body |-> ""]
TimedOut == [status |-> "timeout", body |-> ""]
\* a 2xx answer, an HTTPError, or a transport failure (URLError)
ProviderOutcomes ==
    { [status |-> st, body |-> b] : st \in {"200", "400"}, b \in Bodies }
    \cup { [status |-> "unreachable", body |-> ""] }

NoResponse ==
    [status |-> PyNone, statusDescription |-> PyNone,
     location |-> [base |-> PyNone, query |-> <<>>],
     cache_control |-> PyNone, set_cookie |-> <<>>]

(***************************************************************************)
(* The state machine.                                                      *)
(***************************************************************************)
\* The instance the handler runs on, before anything has run: the module
\* globals of the Secrets Manager variant are None, nobody has called
\* get_oauth_config_from_secrets_manager, and no other invocation has run or
\* is under way
MaxCallers == 2     \* most concurrent calls of get_oauth_config_from_secrets_manager
Callers == 1..MaxCallers

NoSecret == "<no secret>"
NotCalled ==
    [pc |-> "idle", secret_string |-> NoSecret, ret |-> NoConfig,
     store_calls |-> 0, late |-> FALSE, after |-> FALSE, retry |-> FALSE]

NoRun == [ran |-> FALSE]
NoThread == [there |-> FALSE]

InitInstance ==
    /\ _cached_oauth_config = NoConfig          \* None
    /\ _secrets_client = "none"
    /\ callers = [c \in Callers |-> NotCalled]
    /\ populated = NoConfig
    /\ alone = NoRun
    /\ parked = NoThread

\* The locals of lambda_handler before its first statement
InitLocals ==
    /\ pc = "start"
    /\ params = NoParams
    /\ config = NoConfig
    /\ state_data = JNull
    /\ code_verifier = Absent
    /\ redirect_uri = NoUri
    /\ request = NoRequest
    /\ exchanges = 0
    /\ elapsed = 0
    /\ provider = NotAnswered
    /\ token_response = JNull
    /\ exc = NoExc
    /\ raisedIn = "none"
    /\ log = <<>>
    /\ response = NoResponse

Init ==
    /\ IsEvent(event)
    /\ InitLocals
    /\ InitInstance

\* an exception raised in the body of lambda_handler's try
Throw(e, where) ==
    /\ pc' = "except"
    /\ exc' = e
    /\ raisedIn' = where

\* return <response> from lambda_handler
Return(r) ==
    /\ pc' = "done"
    /\ response' = r

\* print(...): the line goes to the function's log
print(line) == log' = Append(log, line)

\* Lines 73-80: the request, its query string, the parsed parameters
ParseRequest ==
    /\ pc = "start"
    /\ LET req == get_request(event)
           qs == IF req.ok THEN request_get(event) ELSE req
           parsed == IF qs.ok THEN parse_query_string(event.querystring) ELSE qs
       IN  IF parsed.ok
           THEN /\ params' = parsed.val
                /\ pc' = "config"
                /\ UNCHANGED <<exc, raisedIn>>
           ELSE /\ Throw(parsed.exc, "lambda_handler")
                /\ UNCHANGED params
    /\ UNCHANGED instance
    /\ UNCHANGED <<event, config, state_data, code_verifier, redirect_uri, request,
                   exchanges, elapsed, provider, token_response, log, response>>

\* The resolver call put off until the token exchange needs the credentials
ResolveConfigDeferred ==
    /\ pc = "config"
    /\ pc' = "error_check"
    /\ UNCHANGED instance
    /\ UNCHANGED <<event, params, config, state_data, code_verifier, redirect_uri,
                   request, exchanges, elapsed, provider, token_response, exc,
                   raisedIn, log, response>>

\* ResolveConfig keeping the configuration it resolved in a module global and
\* using it for the invocations that follow
ResolveConfigCached ==
    /\ pc = "config"
    /\ LET c == IF _cached_oauth_config # NoConfig
                THEN Ok(_cached_oauth_config)
                ELSE get_config_from_headers(event.headers)
       IN  IF c.ok
           THEN /\ config' = c.val
                /\ _cached_oauth_config' = c.val
                /\ pc' = "error_check"
                /\ UNCHANGED <<exc, raisedIn>>
           ELSE /\ Throw(c.exc, "get_config_from_headers")
                /\ UNCHANGED <<config, _cached_oauth_config>>
    /\ UNCHANGED <<_secrets_client, callers, populated, alone, parked>>
    /\ UNCHANGED <<event, params, state_data, code_verifier, redirect_uri, request,
                   exchanges, elapsed, provider, token_response, log, response>>

\* Lines 83-84: the configuration
ResolveConfig ==
    /\ pc = "config"
    /\ LET c == get_config_from_headers(event.headers)
       IN  IF c.ok
           THEN /\ config' = c.val
                /\ pc' = "error_check"
                /\ UNCHANGED <<exc, raisedIn>>
           ELSE /\ Throw(c.exc, "get_config_from_headers")
                /\ UNCHANGED config
    /\ UNCHANGED instance
    /\ UNCHANGED <<event, params, state_data, code_verifier, redirect_uri, request,
                   exchanges, elapsed, provider, token_response, log, response>>

\* Line 88: params.get("error_description", "Unknown error")
error_description(p) ==
    IF params_get(p, "error_description") = PyNone THEN "Unknown error"
    ELSE params_get(p, "error_description")

\* ErrorCheck honouring the provider's error only when no code came with it
ErrorCheckUnlessCode ==
    /\ pc = "error_check"
    /\ LET error == params_get(params, "error")
       IN  IF TruthyStr(error) /\ ~TruthyStr(params_get(params, "code"))
           THEN /\ print(<<"OAuth error: ", error, " - ", error_description(params)>>)
                /\ Return(error_redirect(config.frontend_url, error))
           ELSE /\ pc' = "code_check"
                /\ UNCHANGED <<log, response>>
    /\ UNCHANGED instance
    /\ UNCHANGED <<event, params, config, state_data, code_verifier, redirect_uri,
                   request, exchanges, elapsed, provider, token_response, exc,
                   raisedIn>>

\* Lines 87-92: the provider's own error
ErrorCheck ==
    /\ pc = "error_check"
    /\ LET error == params_get(params, "error")
       IN  IF TruthyStr(error)
           THEN /\ print(<<"OAuth error: ", error, " - ", error_description(params)>>)
                /\ Return(error_redirect(config.frontend_url, error))
           ELSE /\ pc' = "code_check"
                /\ UNCHANGED <<log, response>>
    /\ UNCHANGED instance
    /\ UNCHANGED <<event, params, config, state_data, code_verifier, redirect_uri,
                   request, exchanges, elapsed, provider, token_response, exc,
                   raisedIn>>

\* CodePresence testing `code is None` instead of `not code`
CodePresenceNoneOnly ==
    /\ pc = "code_check"
    /\ IF params_get(params, "code") = PyNone
       THEN /\ print(<<"No authorization code received">>)
            /\ Return(error_redirect(config.frontend_url, "no_code"))
       ELSE /\ pc' = "state_check"
            /\ UNCHANGED <<log, response>>
    /\ UNCHANGED instance
    /\ UNCHANGED <<event, params, config, state_data, code_verifier, redirect_uri,
                   request, exchanges, elapsed, provider, token_response, exc,
                   raisedIn>>

\* CodePresence looking at `state` before it looks at `code`
CodePresenceStateFirst ==
    /\ pc = "code_check"
    /\ IF ~TruthyStr(params_get(params, "state"))
       THEN /\ print(<<"No state parameter received">>)
            /\ Return(error_redirect(config.frontend_url, "no_state"))
       ELSE IF ~TruthyStr(params_get(params, "code"))
       THEN /\ print(<<"No authorization code received">>)
            /\ Return(error_redirect(config.frontend_url, "no_code"))
       ELSE /\ pc' = "state_check"
            /\ UNCHANGED <<log, response>>
    /\ UNCHANGED instance
    /\ UNCHANGED <<event, params, config, state_data, code_verifier, redirect_uri,
                   request, exchanges, elapsed, provider, token_response, exc,
                   raisedIn>>

\* Lines 94-98
CodePresence ==
    /\ pc = "code_check"
    /\ IF ~TruthyStr(params_get(params, "code"))
       THEN /\ print(<<"No authorization code received">>)
            /\ Return(error_redirect(config.frontend_url, "no_code"))
       ELSE /\ pc' = "state_check"
            /\ UNCHANGED <<log, response>>
    /\ UNCHANGED instance
    /\ UNCHANGED <<event, params, config, state_data, code_verifier, redirect_uri,
                   request, exchanges, elapsed, provider, token_response, exc,
                   raisedIn>>

\* Lines 100-104
StatePresence ==
    /\ pc = "state_check"
    /\ IF ~TruthyStr(params_get(params, "state"))
       THEN /\ print(<<"No state parameter received">>)
            /\ Return(error_redirect(config.frontend_url, "no_state"))
       ELSE /\ pc' = "state_decode"
            /\ UNCHANGED <<log, response>>
    /\ UNCHANGED instance
    /\ UNCHANGED <<event, params, config, state_data, code_verifier, redirect_uri,
                   request, exchanges, elapsed, provider, token_response, exc,
                   raisedIn>>

\* Lines 113, 118, 121: what the state-decoding block prints
decode_state_prints(d) ==
    IF d.ok THEN <<"Successfully extracted code_verifier from state parameter">>
    ELSE IF d.exc = NoExc THEN <<"No code_verifier in state parameter">>
    ELSE <<"Failed to decode state parameter: ", str_exc(d.exc)>>

\* Lines 107-124
StateDecode ==
    /\ pc = "state_decode"
    /\ LET d == decode_state(params_get(params, "state"))
       IN  /\ state_data' = d.data
           /\ code_verifier' = d.verifier
           /\ print(decode_state_prints(d))
           /\ IF d.ok
              THEN /\ pc' = "redirect_uri"
                   /\ UNCHANGED response
              ELSE Return(error_redirect(config.frontend_url, d.error))
    /\ UNCHANGED instance
    /\ UNCHANGED <<event, params, config, redirect_uri, request, exchanges,
                   elapsed, provider, token_response, exc, raisedIn>>

\* Lines 128-132
BuildRedirectUri ==
    /\ pc = "redirect_uri"
    /\ LET u == build_redirect_uri(event.headers)
       IN  IF u.ok
           THEN /\ redirect_uri' = u.val
                /\ pc' = "send"
                /\ UNCHANGED <<exc, raisedIn>>
           ELSE /\ Throw(u.exc, "get_header_value")
                /\ UNCHANGED redirect_uri
    /\ UNCHANGED instance
    /\ UNCHANGED <<event, params, config, state_data, code_verifier, request,
                   exchanges, elapsed, provider, token_response, log, response>>

\* Lines 135-141 and 242-264: exchange_token builds the request and calls urlopen
SendTokenRequest ==
    /\ pc = "send"
    /\ request' = token_request(params_get(params, "code"), code_verifier,
                                redirect_uri, config.client_id, config.client_secret)
    /\ exchanges' = exchanges + 1
    /\ elapsed' = 0
    /\ pc' = "await"
    /\ UNCHANGED instance
    /\ UNCHANGED <<event, params, config, state_data, code_verifier, redirect_uri,
                   provider, token_response, exc, raisedIn, log, response>>

\* A second passes while urlopen is blocked
Tick ==
    /\ pc = "await"
    /\ elapsed < request.timeout
    /\ elapsed' = elapsed + 1
    /\ UNCHANGED instance
    /\ UNCHANGED <<event, pc, params, config, state_data, code_verifier,
                   redirect_uri, request, exchanges, provider, token_response,
                   exc, raisedIn, log, response>>

\* The provider answers, or the connection fails, before the timeout
ProviderAnswers ==
    /\ pc = "await"
    /\ elapsed < request.timeout
    /\ \E p \in ProviderOutcomes : provider' = p
    /\ elapsed' = 0                                   \* the socket timer is disarmed
    /\ pc' = "exchange_return"
    /\ UNCHANGED instance
    /\ UNCHANGED <<event, params, config, state_data, code_verifier, redirect_uri,
                   request, exchanges, token_response, exc, raisedIn, log, response>>

\* urlopen(req, timeout=TOKEN_EXCHANGE_TIMEOUT) gives up
Timeout ==
    /\ pc = "await"
    /\ elapsed >= request.timeout
    /\ provider' = TimedOut
    /\ pc' = "exchange_return"
    /\ UNCHANGED instance
    /\ UNCHANGED <<event, params, config, state_data, code_verifier, redirect_uri,
                   request, exchanges, elapsed, token_response, exc, raisedIn, log,
                   response>>

\* ExchangeReturn trying the exchange a second time after a network error
ExchangeReturnRetry ==
    /\ pc = "exchange_return"
    /\ log' = log \o exchange_token_prints(provider)
    /\ LET r == exchange_token_result(provider)
       IN  IF r.ok /\ r.val = error_result(JStr("network_error")) /\ exchanges < 2
           THEN /\ pc' = "send"
                /\ UNCHANGED <<token_response, exc, raisedIn>>
           ELSE IF r.ok
           THEN /\ token_response' = r.val
                /\ pc' = "token_error"
                /\ UNCHANGED <<exc, raisedIn>>
           ELSE /\ Throw(r.exc, "exchange_token")
                /\ UNCHANGED token_response
    /\ UNCHANGED instance
    /\ UNCHANGED <<event, params, config, state_data, code_verifier, redirect_uri,
                   request, exchanges, elapsed, provider, response>>

\* Lines 264-276: exchange_token returns, or an exception leaves it
ExchangeReturn ==
    /\ pc = "exchange_return"
    /\ log' = log \o exchange_token_prints(provider)
    /\ LET r == exchange_token_result(provider)
       IN  IF r.ok
           THEN /\ token_response' = r.val
                /\ pc' = "token_error"
                /\ UNCHANGED <<exc, raisedIn>>
           ELSE /\ Throw(r.exc, "exchange_token")
                /\ UNCHANGED token_response
    /\ UNCHANGED instance
    /\ UNCHANGED <<event, params, config, state_data, code_verifier, redirect_uri,
                   request, exchanges, elapsed, provider, response>>

\* TokenErrorCheck looking at `error` only when the record has no access token
TokenErrorCheckUnlessToken ==
    /\ pc = "token_error"
    /\ CASE token_response.t = "null" ->
                /\ Throw("TypeError", "lambda_handler")
                /\ UNCHANGED <<log, response>>
         [] token_response.t = "list" ->
                /\ pc' = "token_validation"
                /\ UNCHANGED <<exc, raisedIn, log, response>>
         [] token_response.t = "object" ->
                IF /\ token_response.f.error.t # "absent"
                   /\ ~Truthy(token_response.f.access_token)
                THEN /\ print(<<"Token exchange failed: ", token_response.f.error.s>>)
                     /\ Return(error_redirect(config.frontend_url,
                                              token_response.f.error.s))
                     /\ UNCHANGED <<exc, raisedIn>>
                ELSE /\ pc' = "token_validation"
                     /\ UNCHANGED <<exc, raisedIn, log, response>>
    /\ UNCHANGED instance
    /\ UNCHANGED <<event, params, config, state_data, code_verifier, redirect_uri,
                   request, exchanges, elapsed, provider, token_response>>

\* Lines 143-148: "error" in token_response
TokenErrorCheck ==
    /\ pc = "token_error"
    /\ CASE token_response.t = "null" ->              \* "error" in None
                /\ Throw("TypeError", "lambda_handler")
                /\ UNCHANGED <<log, response>>
         [] token_response.t = "list" ->              \* "error" in [] is False
                /\ pc' = "token_validation"
                /\ UNCHANGED <<exc, raisedIn, log, response>>
         [] token_response.t = "object" ->
                IF token_response.f.error.t # "absent"
                THEN /\ print(<<"Token exchange failed: ", token_response.f.error.s>>)
                     /\ Return(error_redirect(config.frontend_url,
                                              token_response.f.error.s))
                     /\ UNCHANGED <<exc, raisedIn>>
                ELSE /\ pc' = "token_validation"
                     /\ UNCHANGED <<exc, raisedIn, log, response>>
    /\ UNCHANGED instance
    /\ UNCHANGED <<event, params, config, state_data, code_verifier, redirect_uri,
                   request, exchanges, elapsed, provider, token_response>>

\* TokenValidation printing the token with its success line
TokenValidationPrintsToken ==
    /\ pc = "token_validation"
    /\ IF token_response.t # "object"
       THEN /\ Throw("AttributeError", "lambda_handler")
            /\ UNCHANGED <<log, response>>
       ELSE LET access_token == token_response.f.access_token
            IN  /\ IF ~Truthy(access_token)
                   THEN /\ print(<<"No access token in response">>)
                        /\ Return(error_redirect(config.frontend_url, "no_token"))
                   ELSE /\ print(<<"OAuth flow completed successfully: ",
                                   access_token.s>>)
                        /\ Return(create_redirect_response(config.frontend_url, <<>>,
                                      COOKIE_NAME, access_token.s, COOKIE_MAX_AGE))
                /\ UNCHANGED <<exc, raisedIn>>
    /\ UNCHANGED instance
    /\ UNCHANGED <<event, params, config, state_data, code_verifier, redirect_uri,
                   request, exchanges, elapsed, provider, token_response>>

\* TokenValidation testing `access_token is None` instead of `not access_token`
TokenValidationNoneOnly ==
    /\ pc = "token_validation"
    /\ IF token_response.t # "object"
       THEN /\ Throw("AttributeError", "lambda_handler")
            /\ UNCHANGED <<log, response>>
       ELSE LET access_token == token_response.f.access_token
            IN  /\ IF access_token.t = "absent"
                   THEN /\ print(<<"No access token in response">>)
                        /\ Return(error_redirect(config.frontend_url, "no_token"))
                   ELSE /\ print(<<"OAuth flow completed successfully">>)
                        /\ Return(create_redirect_response(config.frontend_url, <<>>,
                                      COOKIE_NAME, access_token.s, COOKIE_MAX_AGE))
                /\ UNCHANGED <<exc, raisedIn>>
    /\ UNCHANGED instance
    /\ UNCHANGED <<event, params, config, state_data, code_verifier, redirect_uri,
                   request, exchanges, elapsed, provider, token_response>>

\* Lines 150-165: the access token, and the redirect that carries the cookie
TokenValidation ==
    /\ pc = "token_validation"
    /\ IF token_response.t # "object"                 \* [].get
       THEN /\ Throw("AttributeError", "lambda_handler")
            /\ UNCHANGED <<log, response>>
       ELSE LET access_token == token_response.f.access_token
            IN  /\ IF ~Truthy(access_token)
                   THEN /\ print(<<"No access token in response">>)
                        /\ Return(error_redirect(config.frontend_url, "no_token"))
                   ELSE /\ print(<<"OAuth flow completed successfully">>)
                        /\ Return(create_redirect_response(config.frontend_url, <<>>,
                                      COOKIE_NAME, access_token.s, COOKIE_MAX_AGE))
                /\ UNCHANGED <<exc, raisedIn>>
    /\ UNCHANGED instance
    /\ UNCHANGED <<event, params, config, state_data, code_verifier, redirect_uri,
                   request, exchanges, elapsed, provider, token_response>>

\* The except block going to the default frontend URL without asking the
\* resolver
fallback_frontend_url_default(e) == Ok(DEFAULT_FRONTEND_URL)

\* Lines 172-174: the frontend URL the except block ends up with
fallback_frontend_url(e) ==
    LET req == get_request(e)
        hdr == IF req.ok THEN request_get(e) ELSE req
        c == IF hdr.ok THEN get_config_from_headers(e.headers) ELSE hdr
    IN  IF c.ok THEN Ok(c.val.frontend_url)
        ELSE IF c.exc \in {"KeyError", "IndexError", "TypeError"}
        THEN Ok(DEFAULT_FRONTEND_URL)
        ELSE Raise(c.exc)

\* Lines 167-180: except Exception
TopLevelExcept ==
    /\ pc = "except"
    /\ print(<<"OAuth callback error: ", str_exc(exc)>>)
    /\ LET url == fallback_frontend_url(event)
       IN  IF url.ok
           THEN /\ Return(error_redirect(url.val, "internal_error"))
                /\ exc' = NoExc
                /\ UNCHANGED raisedIn
           ELSE /\ pc' = "crashed"
                /\ exc' = url.exc
                /\ raisedIn' = "lambda_handler.except"
                /\ UNCHANGED response
    /\ UNCHANGED instance
    /\ UNCHANGED <<event, params, config, state_data, code_verifier, redirect_uri,
                   request, exchanges, elapsed, provider, token_response>>

Next ==
    \/ ParseRequest
    \/ ResolveConfig
    \/ ErrorCheck
    \/ CodePresence
    \/ StatePresence
    \/ StateDecode
    \/ BuildRedirectUri
    \/ SendTokenRequest
    \/ Tick
    \/ ProviderAnswers
    \/ Timeout
    \/ ExchangeReturn
    \/ TokenErrorCheck
    \/ TokenValidation
    \/ TopLevelExcept

Spec == Init /\ [][Next]_vars

\* The handler's own steps are taken; the provider need not answer
Fairness ==
    /\ WF_vars(ParseRequest) /\ WF_vars(ResolveConfig) /\ WF_vars(ErrorCheck)
    /\ WF_vars(CodePresence) /\ WF_vars(StatePresence) /\ WF_vars(StateDecode)
    /\ WF_vars(BuildRedirectUri) /\ WF_vars(SendTokenRequest) /\ WF_vars(Tick)
    /\ WF_vars(Timeout) /\ WF_vars(ExchangeReturn) /\ WF_vars(TokenErrorCheck)
    /\ WF_vars(TokenValidation) /\ WF_vars(TopLevelExcept)

(***************************************************************************)
(* Vocabulary of the properties.                                           *)
(***************************************************************************)
Done == pc = "done"
Crashed == pc = "crashed"
Terminal == Done \/ Crashed

\* The value the raw query string carries for key k (the last k=... piece),
\* PyNone when it carries none
QueryParamOf(e, k) ==
    LET pieces == e.querystring.pieces
        at == { i \in DOMAIN pieces : pieces[i].eq /\ unquote(pieces[i].key) = k }
    IN  IF at = {} THEN PyNone
        ELSE unquote(pieces[CHOOSE i \in at : \A j \in at : j <= i].value)

QueryParam(k) == QueryParamOf(event, k)

\* The event carries a query string and the Config Resolver returns for it
\* (get_config_from_headers raises on no header it reads)
ConfigResolves ==
    /\ event.shape = "ok"
    /\ event.querystring.str
    /\ get_config_from_headers(event.headers).ok

\* The oauth_error parameter of a response's Location as the frontend reads it
OAuthError(r) ==
    LET at == { i \in DOMAIN r.location.query : r.location.query[i][1] = "oauth_error" }
    IN  IF at = {} THEN PyNone
        ELSE form_decode(r.location.query[CHOOSE i \in at : TRUE][2])

HasCookie(r) == r.set_cookie # <<>>

\* state values by what they are, not by what the handler makes of them
ValidBlobs ==                  \* base64 of a JSON object with a non-empty verifier string
    { "eyJ2ZXJpZmllciI6InYifQ==",
      "eyJjc3JmIjoieCIsInZlcmlmaWVyIjoidiJ9",
      "eyJjc3JmIjoieSIsInZlcmlmaWVyIjoidiJ9",
      "eyJjc3JmIjoieCIsInZlcmlmaWVyIjoidyJ9" }
BrokenBlobs ==                 \* bad base64, not UTF-8, not JSON, JSON but no object
    { "abc", "/w==", "bm9qc29u", "W10=" }
NoVerifierBlobs ==             \* a JSON object without a verifier, or with an empty one
    { "e30=", "eyJ2ZXJpZmllciI6IiJ9" }
BadBlobs ==                    \* everything that is not a valid blob
    StateBlobs \ ValidBlobs

\* The StateDecode step is what decides the request
ReachesStateDecode ==
    /\ ConfigResolves
    /\ ~TruthyStr(QueryParam("error"))
    /\ TruthyStr(QueryParam("code"))
    /\ TruthyStr(QueryParam("state"))

\* Invocations that get as far as decoding the state: the ones in which an
\* exchange with the provider can happen
InitExchange ==
    /\ Init
    /\ event.shape = "ok"
    /\ event.querystring.str
    /\ ~TruthyStr(QueryParam("error"))
    /\ TruthyStr(QueryParam("code"))
    /\ TruthyStr(QueryParam("state"))

ExchangeSpec == InitExchange /\ [][Next]_vars /\ Fairness

TokenBody == "{\"access_token\":\"T1\",\"token_type\":\"Bearer\",\"expires_in\":3599}"
ErrorBodies == { "{\"error\":\"invalid_grant\"}",
                 "{\"error\":\"invalid_grant\",\"access_token\":\"T1\"}" }
\* bodies that are no JSON error record: no JSON, no UTF-8, no object, no `error`
NoErrorRecordBodies ==
    { "<html>Bad Gateway</html>", "\\xff", "[]", "null", "{}", "{\"access_token\":\"\"}",
      TokenBody }

(***************************************************************************)
(* C1 .. C10                                                               *)
(***************************************************************************)
\* C1: for every inbound event lambda_handler returns a 302 redirect and no
\* exception leaves it.
C1_AlwaysRedirects ==
    /\ ~Crashed
    /\ Done => response.status = "302"

\* C2: when the query carries a non-empty `error`, the redirect has oauth_error
\* equal to it whatever code, state and the other parameters are, and no token
\* exchange is attempted.
C2_ProviderErrorWins ==
    (ConfigResolves /\ TruthyStr(QueryParam("error"))) =>
        /\ exchanges = 0
        /\ ~Crashed
        /\ Done => OAuthError(response) = QueryParam("error")

C2_Witness ==
    /\ Done
    /\ ConfigResolves
    /\ QueryParam("error") = "access denied"
    /\ QueryParam("code") = "c1"
    /\ QueryParam("state") \in ValidBlobs
    /\ OAuthError(response) = "access denied"

\* C3 as the specification words it: every query string without `code` ends in
\* oauth_error=no_code and no Set-Cookie.
C3_MissingCodeAlwaysNoCode ==
    (Terminal /\ ConfigResolves /\ QueryParam("code") = PyNone) =>
        /\ Done
        /\ OAuthError(response) = "no_code"
        /\ ~HasCookie(response)

\* C3, amended: every query string without a non-empty `code` and without a
\* non-empty `error` ends in oauth_error=no_code and no Set-Cookie.
C3_NoCode ==
    (ConfigResolves /\ ~TruthyStr(QueryParam("code"))
                      /\ ~TruthyStr(QueryParam("error"))) =>
        /\ ~Crashed
        /\ exchanges = 0
        /\ Done => /\ OAuthError(response) = "no_code"
                   /\ ~HasCookie(response)

C3_Witness ==
    /\ Done
    /\ ConfigResolves
    /\ QueryParam("code") = PyNone
    /\ QueryParam("state") \in ValidBlobs
    /\ OAuthError(response) = "no_code"

\* C4: when the provider answers the exchange with {access_token: T}, the
\* response carries one Set-Cookie with google_oauth_access_token=T,
\* Max-Age=604800, Path=/ and SameSite=Lax, and its Location has no oauth_error.
C4_SuccessCookie ==
    (Terminal /\ provider = [status |-> "200", body |-> TokenBody]) =>
        /\ Done
        /\ response.status = "302"
        /\ Len(response.set_cookie) = 1
        /\ response.set_cookie[1].name = "google_oauth_access_token"
        /\ response.set_cookie[1].value = "T1"
        /\ response.set_cookie[1].MaxAge = 604800
        /\ response.set_cookie[1].Path = "/"
        /\ response.set_cookie[1].SameSite = "Lax"
        /\ OAuthError(response) = PyNone
        /\ response.location.query = <<>>

C4_Witness ==
    /\ Done
    /\ QueryParam("code") = "c1"
    /\ QueryParam("state") \in ValidBlobs
    /\ provider = [status |-> "200", body |-> TokenBody]
    /\ HasCookie(response)

\* C5: no exception leaves exchange_token, whatever the provider does.
C5_ExchangeNeverRaises == raisedIn # "exchange_token"

\* C6: when the provider answers non-2xx with the JSON body {"error": E}, the
\* redirect has oauth_error=E and no Set-Cookie.
C6_ProviderErrorCode ==
    (Terminal /\ provider.status = "400" /\ provider.body \in ErrorBodies) =>
        /\ Done
        /\ OAuthError(response) = "invalid_grant"
        /\ ~HasCookie(response)

C6_Witness ==
    /\ Done
    /\ provider = [status |-> "400", body |-> "{\"error\":\"invalid_grant\"}"]
    /\ OAuthError(response) = "invalid_grant"

\* C7: when the provider answers non-2xx with a body that is no JSON error
\* record, the redirect has oauth_error=token_exchange_failed.
C7_UnparseableErrorBody ==
    (Terminal /\ provider.status = "400" /\ provider.body \in NoErrorRecordBodies) =>
        /\ Done
        /\ OAuthError(response) = "token_exchange_failed"

\* C8: an exchange the provider never answers is abandoned at the timeout:
\* the handler leaves urlopen after at most TOKEN_EXCHANGE_TIMEOUT seconds
\* and the invocation ends in oauth_error=network_error.
C8_TimeoutEnds ==
    /\ [](elapsed <= TOKEN_EXCHANGE_TIMEOUT)
    /\ (pc = "await") ~>
          (Done /\ (provider = TimedOut =>
                      /\ OAuthError(response) = "network_error"
                      /\ ~HasCookie(response)))

C8_Witness ==
    /\ Done
    /\ provider = TimedOut
    /\ OAuthError(response) = "network_error"

\* C9: a state value that is not base64 of a JSON object with a non-empty
\* verifier string ends the invocation in invalid_state or no_verifier, and
\* no token exchange is made.
C9_BadStateStops ==
    (ReachesStateDecode /\ QueryParam("state") \in BadBlobs) =>
        /\ exchanges = 0
        /\ ~Crashed
        /\ Done => OAuthError(response) \in {"invalid_state", "no_verifier"}

\* C10 as the specification words it: every state-decoding failure, a missing
\* verifier included, is reported as invalid_state.
C10_AllFailuresInvalidState ==
    (Terminal /\ ReachesStateDecode
              /\ QueryParam("state") \in BrokenBlobs \cup NoVerifierBlobs) =>
        /\ Done
        /\ OAuthError(response) = "invalid_state"

\* C10, amended: bad base64, a bad encoding and a bad structure are all
\* reported as invalid_state; a missing or empty verifier is reported as
\* no_verifier; in both cases no exchange is made and nothing else of the
\* cause shows in the redirect.
C10_DecodeFailureCodes ==
    /\ (ReachesStateDecode /\ QueryParam("state") \in BrokenBlobs) =>
          /\ exchanges = 0 /\ ~Crashed
          /\ Done => response = error_redirect(config.frontend_url, "invalid_state")
    /\ (ReachesStateDecode /\ QueryParam("state") \in NoVerifierBlobs) =>
          /\ exchanges = 0 /\ ~Crashed
          /\ Done => response = error_redirect(config.frontend_url, "no_verifier")

C10_Witness ==
    /\ Done
    /\ ReachesStateDecode
    /\ QueryParam("state") = "e30="
    /\ OAuthError(response) = "no_verifier"

(***************************************************************************)
(* The browser script's side of the state contract: the state parameter is *)
(* base64 of the JSON text of {csrf, verifier}.                            *)
(***************************************************************************)
\* JSON.stringify({csrf, verifier}) for values that need no escaping
json_stringify(csrf, verifier) ==
    "{\"csrf\":\"" \o csrf \o "\",\"verifier\":\"" \o verifier \o "\"}"

\* base64 encoding of a text, standard alphabet with padding
b64encode(text) ==
    CASE text = "{\"csrf\":\"x\",\"verifier\":\"v\"}" -> "eyJjc3JmIjoieCIsInZlcmlmaWVyIjoidiJ9"
      [] text = "{\"csrf\":\"y\",\"verifier\":\"v\"}" -> "eyJjc3JmIjoieSIsInZlcmlmaWVyIjoidiJ9"
      [] text = "{\"csrf\":\"x\",\"verifier\":\"w\"}" -> "eyJjc3JmIjoieCIsInZlcmlmaWVyIjoidyJ9"

encode_state(csrf, verifier) == b64encode(json_stringify(csrf, verifier))

\* The <<csrf, verifier>> pairs the events carry an encoding of
StatePayloads == { <<"x", "v">>, <<"y", "v">>, <<"x", "w">> }

\* The state-decoding block has been left without a redirect
Decoded ==
    pc \notin {"start", "config", "error_check", "code_check", "state_check",
               "state_decode"}

(***************************************************************************)
(* C11 .. C20                                                              *)
(***************************************************************************)
\* C11: for every csrf X and non-empty verifier Y, decoding the base64 of the
\* JSON record {csrf: X, verifier: Y} gives back the record with csrf X and
\* verifier Y, and the verifier sent in the token request is Y.
C11_RoundTrip ==
    \A pl \in StatePayloads :
        (ReachesStateDecode /\ QueryParam("state") = encode_state(pl[1], pl[2])) =>
            /\ Decoded =>
                  /\ state_data = JObject([NoFields EXCEPT !.csrf = JStr(pl[1]),
                                                           !.verifier = JStr(pl[2])])
                  /\ code_verifier = JStr(pl[2])
                  /\ pc # "done" \/ OAuthError(response) \notin {"invalid_state", "no_verifier"}
            /\ exchanges > 0 => request.data[4] = <<"code_verifier", pl[2]>>

C11_Witness ==
    /\ Done
    /\ ReachesStateDecode
    /\ QueryParam("state") = encode_state("x", "w")
    /\ state_data.f.csrf = JStr("x")
    /\ exchanges = 1
    /\ request.data[4] = <<"code_verifier", "w">>

\* 2xx bodies that are a JSON record without an error and without a token
NoTokenBodies == { "{}", "{\"access_token\":\"\"}" }

\* C12: when the provider answers 2xx with a record that has no `error` and
\* whose access_token is absent or empty, the redirect has oauth_error=no_token
\* and no Set-Cookie.
C12_NoToken ==
    (Terminal /\ provider.status = "200" /\ provider.body \in NoTokenBodies) =>
        /\ Done
        /\ OAuthError(response) = "no_token"
        /\ ~HasCookie(response)

C12_Witness ==
    /\ Done
    /\ provider = [status |-> "200", body |-> "{\"access_token\":\"\"}"]
    /\ token_response.f.error = Absent
    /\ OAuthError(response) = "no_token"
    /\ ~HasCookie(response)

\* The invocation serves a deployed site: the callback URL it rebuilds from
\* the Host header is an https one
Production == redirect_uri.protocol = "https"

\* C13: in production the Set-Cookie emitted on success carries the Secure
\* attribute.
C13_SecureInProduction ==
    (Done /\ Production /\ HasCookie(response)) => response.set_cookie[1].Secure

\* C14: every response the handler returns, on the success path and on each
\* error path, has status "302" / "Found", a Location header and the
\* cache-control header "no-cache, no-store, must-revalidate".
C14_ResponseShape ==
    Done =>
        /\ response.status = "302"
        /\ response.statusDescription = "Found"
        /\ response.location.base # PyNone
        /\ response.cache_control = "no-cache, no-store, must-revalidate"

\* the response of the top-level except block, the path furthest from success
C14_Witness ==
    /\ Done
    /\ raisedIn = "exchange_token"
    /\ OAuthError(response) = "internal_error"
    /\ response.status = "302"
    /\ response.cache_control = "no-cache, no-store, must-revalidate"

\* The handler gets as far as calling the Config Resolver, and the call raises
ResolverRaises ==
    /\ event.shape = "ok"
    /\ event.querystring.str
    /\ ~get_config_from_headers(event.headers).ok

\* C15: when the Config Resolver raises, the invocation ends in a redirect to
\* the hard-coded default frontend URL with oauth_error=internal_error; no
\* exception leaves lambda_handler, not even when the resolver raises again in
\* the except block.
C15_ResolverFailureHandled ==
    ResolverRaises =>
        /\ ~Crashed
        /\ Done => response = error_redirect(DEFAULT_FRONTEND_URL, "internal_error")

\* The Location carries no query parameter other than one oauth_error
AtMostOAuthError(r) ==
    /\ Len(r.location.query) <= 1
    /\ \A i \in DOMAIN r.location.query : r.location.query[i][1] = "oauth_error"

\* C16 as the specification words it: on every terminal outcome the redirect
\* target is the frontend URL the Config Resolver supplied, with at most the
\* oauth_error parameter.
C16_TargetFromResolver ==
    Done =>
        /\ get_config_from_headers(event.headers).ok
        /\ response.location.base = get_config_from_headers(event.headers).val.frontend_url
        /\ AtMostOAuthError(response)

\* C16, amended: the redirect target is the frontend URL the Config Resolver
\* supplies, or the hard-coded default when the request cannot be read or the
\* resolver raises; it carries at most the oauth_error parameter, and the
\* Host header, the query string and the provider's answer have no part in
\* the target.
C16_TargetFromResolverOrDefault ==
    Done =>
        /\ response.location.base =
              IF event.shape = "ok" /\ get_config_from_headers(event.headers).ok
              THEN get_config_from_headers(event.headers).val.frontend_url
              ELSE DEFAULT_FRONTEND_URL
        /\ AtMostOAuthError(response)

C16_Witness ==
    /\ Done
    /\ ResolverRaises
    /\ QueryParam("code") = "c1"
    /\ response.location.base = DEFAULT_FRONTEND_URL
    /\ OAuthError(response) = "internal_error"

\* The secret material of the invocation: the client secret (as the request
\* carries it and as the resolver returned it), the access token, the state
\* parameter and the value of the cookie
SecretMaterial ==
    ( { config.client_secret, QueryParam("state") }
      \cup (IF event.headers.dict
            THEN { event.headers.entries["x-oauth-client-secret"].value }
            ELSE {})
      \cup (IF token_response.f.access_token.t = "str"
            THEN { token_response.f.access_token.s }
            ELSE {})
      \cup { response.set_cookie[i].value : i \in DOMAIN response.set_cookie } )
    \ { PyNone, "" }

\* C17: no line printed during an invocation, on any path, contains the client
\* secret, the access token, the state parameter or the cookie value.
C17_NoSecretsInLog ==
    \A i \in DOMAIN log : \A j \in DOMAIN log[i] : log[i][j] \notin SecretMaterial

C17_Witness ==
    /\ Done
    /\ HasCookie(response)
    /\ SecretMaterial = { "secret-1", "T1", encode_state("x", "w") }
    /\ log = << <<"Successfully extracted code_verifier from state parameter">>,
                <<"OAuth flow completed successfully">> >>

(***************************************************************************)
(* The development server's /oauth/callback (server.py 43-152), as the     *)
(* outcome it returns for a query string and a behaviour of the provider.  *)
(***************************************************************************)
\* request.args.get(k): the first value of a repeated key, percent-decoded
request_args_get(querystring, k) ==
    LET pieces == querystring.pieces
        at == { i \in DOMAIN pieces : unquote(pieces[i].key) = k }
    IN  IF at = {} THEN PyNone
        ELSE unquote(pieces[CHOOSE i \in at : \A j \in at : i <= j].value)

\* redirect(f"{FRONTEND_URL}/?oauth_error={error}")
server_redirect(error) ==
    [returned |-> TRUE, oauth_error |-> error, set_cookie |-> <<>>]

\* Lines 133-148: redirect(FRONTEND_URL) with response.set_cookie(...)
server_cookie_response(access_token) ==
    [returned |-> TRUE, oauth_error |-> PyNone,
     set_cookie |-> << [name |-> "google_oauth_access_token", value |-> access_token,
                        MaxAge |-> 7 * 24 * 60 * 60, Path |-> "/",
                        SameSite |-> "Lax", Secure |-> FALSE] >>]

\* requests.post has no timeout: with a silent provider the view never returns
ServerBlocked == [returned |-> FALSE, oauth_error |-> PyNone, set_cookie |-> <<>>]

\* Lines 110-148: requests.post and what is made of its response
server_exchange(p) ==
    CASE p.status = "none" -> ServerBlocked           \* waiting for the provider
      [] p.status = "timeout" -> ServerBlocked
      [] p.status = "unreachable" ->                  \* ConnectionError, line 150
            server_redirect("internal_error")
      [] p.status = "400" ->                          \* not response.ok
            LET text == utf8_decode(p.body)
                data == IF text.ok THEN json_loads(text.val) ELSE text
            IN  IF ~data.ok \/ data.val.t # "object"  \* response.json(), .get raise
                THEN server_redirect("internal_error")
                ELSE IF data.val.f.error.t = "absent"
                THEN server_redirect("token_exchange_failed")
                ELSE server_redirect(data.val.f.error.s)
      [] p.status = "200" ->
            LET text == utf8_decode(p.body)
                data == IF text.ok THEN json_loads(text.val) ELSE text
            IN  IF ~data.ok \/ data.val.t # "object"
                THEN server_redirect("internal_error")
                ELSE IF ~Truthy(data.val.f.access_token)
                THEN server_redirect("no_token")
                ELSE server_cookie_response(data.val.f.access_token.s)

\* oauth_callback; its state decoding (lines 81-96) is the handler's, step by
\* step, and is taken from decode_state
oauth_callback(querystring, p) ==
    LET code == request_args_get(querystring, "code")
        state == request_args_get(querystring, "state")
        error == request_args_get(querystring, "error")
    IN  IF TruthyStr(error) THEN server_redirect(error)
        ELSE IF ~TruthyStr(code) THEN server_redirect("no_code")
        ELSE IF ~TruthyStr(state) THEN server_redirect("no_state")
        ELSE IF ~decode_state(state).ok THEN server_redirect(decode_state(state).error)
        ELSE server_exchange(p)

\* What lambda_handler ended in, in the same terms
handler_outcome ==
    [returned |-> Done,
     oauth_error |-> IF Done THEN OAuthError(response) ELSE PyNone,
     set_cookie |-> response.set_cookie]

\* The same error code, or the same cookie apart from its Secure attribute
SameOutcome(a, b) ==
    /\ a.returned = b.returned
    /\ a.oauth_error = b.oauth_error
    /\ Len(a.set_cookie) = Len(b.set_cookie)
    /\ \A i \in DOMAIN a.set_cookie :
          [a.set_cookie[i] EXCEPT !.Secure = FALSE] =
          [b.set_cookie[i] EXCEPT !.Secure = FALSE]

\* A request as CloudFront delivers it: the resolver returns and the Host
\* header, if there is one, is well formed
WellFormedEvent ==
    /\ ConfigResolves
    /\ event.headers.entries["host"].kind # "elem_not_dict"

\* Both parsers read the same code, state and error out of the query string
\* (no key is repeated with different values)
SameParameters ==
    \A k \in {"code", "state", "error"} :
        QueryParam(k) = request_args_get(event.querystring, k)

\* C19: for the same query parameters and the same behaviour of the provider,
\* server.oauth_callback and lambda_handler end in the same outcome: the same
\* oauth_error code, or the same cookie apart from Secure.
C19_ServerSimulatesHandler ==
    (Terminal /\ WellFormedEvent /\ SameParameters) =>
        SameOutcome(handler_outcome, oauth_callback(event.querystring, provider))

\* The Config Resolver has been called and has returned
ConfigResolved == config # NoConfig

\* The invocation ended at ErrorCheck, CodePresence, StatePresence or StateDecode
EndedBeforeExchange == Done /\ raisedIn = "none" /\ exchanges = 0

\* C20 as the specification words it: the Config Resolver is consulted only
\* after ErrorCheck, CodePresence, StatePresence and StateDecode have passed;
\* an invocation that ends in one of them never invokes it.
C20_ResolverIsStepSeven ==
    /\ ConfigResolved => Decoded /\ Truthy(code_verifier)
    /\ EndedBeforeExchange => ~ConfigResolved

\* C20, amended: ConfigResolution is the step after query parsing.  The
\* resolver has not been consulted while the query is parsed, has returned
\* before ErrorCheck, CodePresence, StatePresence and StateDecode run, and an
\* invocation that ends in one of them has invoked it and redirects to the
\* frontend URL it returned.
C20_ResolverBeforeChecks ==
    /\ pc = "start" => ~ConfigResolved
    /\ pc \in {"error_check", "code_check", "state_check", "state_decode"} =>
          /\ ConfigResolved
          /\ Ok(config) = get_config_from_headers(event.headers)
    /\ EndedBeforeExchange =>
          /\ ConfigResolved
          /\ response.location.base = config.frontend_url

C20_Witness ==
    /\ EndedBeforeExchange
    /\ OAuthError(response) = "no_state"
    /\ ConfigResolved
    /\ code_verifier = Absent

(***************************************************************************)
(* C21 .. C30                                                              *)
(***************************************************************************)
\* C21: the token request is sent at most once per invocation, and only when
\* the query has no `error`, a non-empty `code`, a non-empty `state`, and the
\* state decoded to a non-empty verifier; an invocation failing any of these
\* makes no provider call.
C21_ExchangeOnceAfterChecks ==
    /\ exchanges <= 1
    /\ pc \in {"await", "exchange_return"} => exchanges = 1
    /\ exchanges > 0 =>
          /\ ~TruthyStr(QueryParam("error"))
          /\ TruthyStr(QueryParam("code"))
          /\ TruthyStr(QueryParam("state"))
          /\ decode_state(QueryParam("state")).ok
          /\ Truthy(code_verifier)
          /\ request.data[4] = <<"code_verifier", code_verifier.s>>

C21_Witness ==
    /\ Done
    /\ exchanges = 1
    /\ provider.status = "unreachable"
    /\ OAuthError(response) = "network_error"

\* C22: with no `error` parameter, a request without `code` and without
\* `state` ends in no_code; one with `code` and without `state` ends in
\* no_state; and a state that is missing or cannot be decoded is reported
\* without the provider being called, so before any token-exchange error.
C22_FailurePrecedence ==
    (ConfigResolves /\ ~TruthyStr(QueryParam("error"))) =>
        /\ ~Crashed
        /\ (~TruthyStr(QueryParam("code")) /\ ~TruthyStr(QueryParam("state"))) =>
              /\ exchanges = 0
              /\ Done => OAuthError(response) = "no_code"
        /\ (TruthyStr(QueryParam("code")) /\ ~TruthyStr(QueryParam("state"))) =>
              /\ exchanges = 0
              /\ Done => OAuthError(response) = "no_state"
        /\ (TruthyStr(QueryParam("code"))
              /\ QueryParam("state") \in BrokenBlobs \cup NoVerifierBlobs) =>
              /\ exchanges = 0
              /\ Done => OAuthError(response) \in {"invalid_state", "no_verifier"}

C22_Witness ==
    /\ Done
    /\ ConfigResolves
    /\ QueryParam("error") = ""
    /\ QueryParam("code") = PyNone
    /\ QueryParam("state") = PyNone
    /\ OAuthError(response) = "no_code"

(***************************************************************************)
(* Invocations that differ in the Host header only: a well-formed callback *)
(* (code, decodable state, resolvable configuration) arriving for each of  *)
(* the hosts below.                                                        *)
(***************************************************************************)
HostEntries ==
    { HAbsent, HEmpty, HNoValue, HElemNotDict,
      HValue("app.example"), HValue("localhost:5173"), HValue("127.0.0.1:5173"),
      HValue("notlocalhost.evil.com") }

HostEvents ==
    { [shape |-> "ok",
       querystring |-> QsStr(<< Pair("code", "c1"),
                                Pair("state", "eyJjc3JmIjoieCIsInZlcmlmaWVyIjoidiJ9") >>),
       headers |-> [dict |-> TRUE,
                    entries |-> [n \in HeaderNames |->
                        CASE n = "x-oauth-client-id" -> HValue("client-1")
                          [] n = "x-oauth-client-secret" -> HValue("secret-1")
                          [] n = "x-oauth-frontend-url" -> HValue("https://app.example")
                          [] n = "host" -> h]]] : h \in HostEntries }

InitHost ==
    /\ event \in HostEvents
    /\ InitLocals
    /\ InitInstance

HostSpec == InitHost /\ [][Next]_vars

\* The Host header as a client sent it, DEFAULT_HOST when it sent none
HostOf(e) ==
    IF e.headers.entries["host"].kind = "value"
    THEN e.headers.entries["host"].value
    ELSE DEFAULT_HOST

\* The host part names the loopback interface
IsLoopback(host) == host \in { "localhost:5173", "127.0.0.1:5173" }

\* C23: the redirect_uri sent to the provider is <scheme>://<Host>/oauth/callback
\* (Host defaulting to localhost:5173), with scheme http when the host is a
\* loopback address and https for every other host, also for one whose name
\* only contains the text "localhost" or "127.0.0.1".
C23_RedirectUriScheme ==
    exchanges > 0 =>
        /\ redirect_uri =
              [protocol |-> IF IsLoopback(HostOf(event)) THEN "http" ELSE "https",
               host |-> HostOf(event),
               path |-> "/oauth/callback"]
        /\ request.data[6] = <<"redirect_uri", redirect_uri>>

\* The value of a field of the token request's form body, PyNone when the
\* body has no such field
FormField(k) ==
    LET at == { i \in DOMAIN request.data : request.data[i][1] = k }
    IN  IF at = {} THEN PyNone ELSE request.data[CHOOSE i \in at : TRUE][2]

\* C24: the token request is a POST to the fixed token endpoint whose form
\* body has exactly the fields client_id, client_secret, code, code_verifier,
\* grant_type and redirect_uri, with grant_type=authorization_code, code the
\* `code` query parameter, code_verifier the verifier of the decoded state,
\* and client_id and client_secret the values the resolver returned.
C24_TokenRequestFields ==
    exchanges > 0 =>
        /\ request.url = "https://oauth2.googleapis.com/token"
        /\ request.method = "POST"
        /\ Len(request.data) = 6
        /\ { request.data[i][1] : i \in DOMAIN request.data } =
              { "client_id", "client_secret", "code", "code_verifier",
                "grant_type", "redirect_uri" }
        /\ FormField("grant_type") = "authorization_code"
        /\ FormField("code") = QueryParam("code")
        /\ FormField("code_verifier") = state_data.f.verifier.s
        /\ \A pl \in StatePayloads :
              QueryParam("state") = encode_state(pl[1], pl[2]) =>
                  FormField("code_verifier") = pl[2]
        /\ FormField("client_id") = event.headers.entries["x-oauth-client-id"].value
        /\ FormField("client_secret") =
              event.headers.entries["x-oauth-client-secret"].value
        /\ FormField("redirect_uri") = redirect_uri

C24_Witness ==
    /\ pc = "await"
    /\ exchanges = 1
    /\ QueryParam("state") = encode_state("y", "v")
    /\ FormField("code") = "c1"
    /\ FormField("code_verifier") = "v"
    /\ FormField("client_secret") = "secret-1"

(***************************************************************************)
(* Invocations that differ in the raw query string only: up to MaxParams   *)
(* of the pieces below, with a percent-encoded key, a percent-encoded      *)
(* value, a value that itself holds "=", a repeated key and a piece        *)
(* without "=".                                                            *)
(***************************************************************************)
ParsePieces ==
    { Pair("%63ode", "c1"), Pair("code", "c2"), Pair("error", "access%20denied"),
      Pair("state", "eyJ2ZXJpZmllciI6InYifQ=="), Bare("code") }

ParseEvents ==
    { [shape |-> "ok",
       querystring |-> QsStr(q),
       headers |-> [dict |-> TRUE,
                    entries |-> [n \in HeaderNames |->
                        CASE n = "x-oauth-client-id" -> HValue("client-1")
                          [] n = "x-oauth-client-secret" -> HValue("secret-1")
                          [] n = "x-oauth-frontend-url" -> HValue("https://app.example")
                          [] n = "host" -> HValue("app.example")]]] :
      q \in BoundedSeq(ParsePieces, MaxParams) }

InitParse ==
    /\ event \in ParseEvents
    /\ InitLocals
    /\ InitInstance

ParseSpec == InitParse /\ [][Next]_vars

\* The pieces of a raw query string that have the form key=value
KeyValuePieces(querystring) ==
    { i \in DOMAIN querystring.pieces : querystring.pieces[i].eq }

\* C27: parse_query_string never fails on a raw query string, and returns the
\* mapping that holds, for every key=value piece, the percent-decoded key with
\* the percent-decoded value of the last piece carrying that key; pieces
\* without "=" contribute nothing.
C27_ParseQueryString ==
    (event.querystring.str /\ event.shape = "ok" /\ pc # "start") =>
        LET pieces == event.querystring.pieces
            kv == KeyValuePieces(event.querystring)
        IN  /\ pc = "except" => config # NoConfig
            /\ DOMAIN params = { unquote(pieces[i].key) : i \in kv }
            /\ \A i \in kv :
                  (\A j \in kv : j > i => unquote(pieces[j].key) # unquote(pieces[i].key))
                      => params[unquote(pieces[i].key)] = unquote(pieces[i].value)

C27_Witness ==
    /\ pc = "config"
    /\ event.querystring.pieces =
          << Pair("code", "c2"), Bare("code"), Pair("%63ode", "c1") >>
    /\ params = [n \in {"code"} |-> "c1"]

\* C29: a response carries either a Set-Cookie header or an oauth_error
\* parameter in its Location, never both and never neither; the cookie is set
\* once, only when the provider answered 2xx with a record that has no
\* `error` and a non-empty access token, and its value is that token.
C29_CookieXorError ==
    Done =>
        /\ HasCookie(response) <=> OAuthError(response) = PyNone
        /\ Len(response.set_cookie) <= 1
        /\ HasCookie(response) =>
              LET body == json_loads(provider.body)
              IN  /\ exchanges = 1
                  /\ provider.status = "200"
                  /\ body.ok /\ body.val.t = "object"
                  /\ body.val.f.error = Absent
                  /\ Truthy(body.val.f.access_token)
                  /\ response.set_cookie[1].name = COOKIE_NAME
                  /\ response.set_cookie[1].value = body.val.f.access_token.s
                  /\ response.set_cookie[1].value # ""
                  /\ response.location.query = <<>>

C29_Witness ==
    /\ Done
    /\ HasCookie(response)
    /\ response.set_cookie[1].value = "T1"
    /\ OAuthError(response) = PyNone

\* C30: an answer of the provider whose JSON record has an `error` key is a
\* failure, whatever its status and whether or not it also has an
\* access_token: the response sets no cookie and its oauth_error is the value
\* of that key.
C30_ErrorKeyIsFailure ==
    LET body == json_loads(provider.body)
    IN  (/\ Done
         /\ provider.status \in {"200", "400"}
         /\ body.ok /\ body.val.t = "object"
         /\ body.val.f.error # Absent) =>
            /\ ~HasCookie(response)
            /\ OAuthError(response) = body.val.f.error.s

C30_Witness ==
    /\ Done
    /\ provider = [status |-> "200",
                   body |-> "{\"error\":\"invalid_grant\",\"access_token\":\"T1\"}"]
    /\ ~HasCookie(response)
    /\ OAuthError(response) = "invalid_grant"

(***************************************************************************)
(* The Secrets Manager variant of the Config Resolver (handler.py 357-392, *)
(* kept in the file as the code to uncomment for production).  Up to       *)
(* MaxCallers calls of get_oauth_config_from_secrets_manager run on one    *)
(* instance; a call is a sequence of steps, one for each access to a       *)
(* module global and one for the call of the secret store, and the steps   *)
(* of different calls interleave.                                          *)
(***************************************************************************)
SecretString ==
    "{\"client_id\":\"client-1\",\"client_secret\":\"secret-1\",\"frontend_url\":\"https://app.example\"}"

\* the secret after its client_secret was rotated
RotatedSecretString ==
    "{\"client_id\":\"client-1\",\"client_secret\":\"secret-2\",\"frontend_url\":\"https://app.example\"}"

\* json.loads on the secret strings of the model
loads_secret(s) ==
    CASE s = SecretString ->
            Ok([client_id |-> "client-1", client_secret |-> "secret-1",
                frontend_url |-> "https://app.example"])
      [] s = RotatedSecretString ->
            Ok([client_id |-> "client-1", client_secret |-> "secret-2",
                frontend_url |-> "https://app.example"])
      [] OTHER -> Raise("JSONDecodeError")

\* What get_secret_value can produce: the secret, the secret after a
\* rotation, a secret that is no JSON, or an exception of the client
StoreAnswers ==
    { Ok(SecretString), Ok(RotatedSecretString), Ok("oauth-config"),
      Raise("ClientError") }

\* The dictionary the except branch returns (lines 388-392)
FallbackConfig ==
    [client_id |-> "", client_secret |-> "", frontend_url |-> DEFAULT_FRONTEND_URL]

\* value of callers with the call of c changed to r
Step(c, r) == callers' = [callers EXCEPT ![c] = r]

\* get_oauth_config_from_secrets_manager() is called
Call(c) ==
    /\ callers[c].pc = "idle"
    /\ Step(c, [callers[c] EXCEPT
                   !.pc = "check",
                   !.late = (_cached_oauth_config # NoConfig),
                   !.retry = (\E d \in Callers : /\ callers[d].pc = "done"
                                                 /\ callers[d].store_calls = 1
                                                 /\ callers[d].secret_string = NoSecret)])
    /\ UNCHANGED <<_cached_oauth_config, _secrets_client, populated>>

\* CheckCache going to the secret store whatever the cache holds
CheckCacheAlwaysFetch(c) ==
    /\ callers[c].pc = "check"
    /\ Step(c, [callers[c] EXCEPT !.pc = "client"])
    /\ UNCHANGED <<_cached_oauth_config, _secrets_client, populated>>

\* Lines 371-372: if _cached_oauth_config is not None: return it
CheckCache(c) ==
    /\ callers[c].pc = "check"
    /\ IF _cached_oauth_config # NoConfig
       THEN Step(c, [callers[c] EXCEPT !.pc = "done",
                                       !.ret = _cached_oauth_config,
                                       !.after = TRUE])
       ELSE Step(c, [callers[c] EXCEPT !.pc = "client"])
    /\ UNCHANGED <<_cached_oauth_config, _secrets_client, populated>>

\* Lines 375-376: the client is made once
MakeClient(c) ==
    /\ callers[c].pc = "client"
    /\ _secrets_client' = "client"
    /\ Step(c, [callers[c] EXCEPT !.pc = "fetch"])
    /\ UNCHANGED <<_cached_oauth_config, populated>>

\* Lines 380-381: get_secret_value and its SecretString
GetSecretValue(c) ==
    /\ callers[c].pc = "fetch"
    /\ \E answer \in StoreAnswers :
          IF answer.ok
          THEN Step(c, [callers[c] EXCEPT !.pc = "loads",
                                          !.secret_string = answer.val,
                                          !.store_calls = @ + 1])
          ELSE Step(c, [callers[c] EXCEPT !.pc = "except",
                                          !.store_calls = @ + 1])
    /\ UNCHANGED <<_cached_oauth_config, _secrets_client, populated>>

\* Line 382: _cached_oauth_config = json.loads(secret_string)
Populate(c) ==
    /\ callers[c].pc = "loads"
    /\ LET loaded == loads_secret(callers[c].secret_string)
       IN  IF loaded.ok
           THEN /\ _cached_oauth_config' = loaded.val
                /\ populated' = IF populated = NoConfig THEN loaded.val ELSE populated
                /\ Step(c, [callers[c] EXCEPT !.pc = "return"])
           ELSE /\ Step(c, [callers[c] EXCEPT !.pc = "except"])
                /\ UNCHANGED <<_cached_oauth_config, populated>>
    /\ UNCHANGED _secrets_client

\* Line 384: return _cached_oauth_config
ReturnCached(c) ==
    /\ callers[c].pc = "return"
    /\ Step(c, [callers[c] EXCEPT !.pc = "done",
                                  !.ret = _cached_oauth_config,
                                  !.after = TRUE])
    /\ UNCHANGED <<_cached_oauth_config, _secrets_client, populated>>

\* ReturnFallback keeping the fallback dictionary in the cache
ReturnFallbackCached(c) ==
    /\ callers[c].pc = "except"
    /\ _cached_oauth_config' = FallbackConfig
    /\ Step(c, [callers[c] EXCEPT !.pc = "done",
                                  !.ret = FallbackConfig,
                                  !.after = (populated # NoConfig)])
    /\ UNCHANGED <<_secrets_client, populated>>

\* Lines 385-392: except Exception: return the fallback dictionary
ReturnFallback(c) ==
    /\ callers[c].pc = "except"
    /\ Step(c, [callers[c] EXCEPT !.pc = "done",
                                  !.ret = FallbackConfig,
                                  !.after = (populated # NoConfig)])
    /\ UNCHANGED <<_cached_oauth_config, _secrets_client, populated>>

\* The invocation whose resolver is being called stays where it is
InvocationWaits ==
    UNCHANGED <<event, pc, params, config, state_data, code_verifier, redirect_uri,
                request, exchanges, elapsed, provider, token_response, exc,
                raisedIn, log, response, alone, parked>>

CacheNext ==
    \E c \in Callers :
        \/ Call(c) /\ InvocationWaits
        \/ CheckCache(c) /\ InvocationWaits
        \/ MakeClient(c) /\ InvocationWaits
        \/ GetSecretValue(c) /\ InvocationWaits
        \/ Populate(c) /\ InvocationWaits
        \/ ReturnCached(c) /\ InvocationWaits
        \/ ReturnFallback(c) /\ InvocationWaits

InitCache ==
    /\ event \in ParseEvents /\ event.querystring.pieces = <<>>
    /\ InitLocals
    /\ InitInstance

CacheSpec == InitCache /\ [][CacheNext]_vars

StoredConfigs ==
    { loads_secret(a.val).val : a \in { b \in StoreAnswers : b.ok /\ loads_secret(b.val).ok } }

Locals ==
    [event |-> event, pc |-> pc, params |-> params, config |-> config,
     state_data |-> state_data, code_verifier |-> code_verifier,
     redirect_uri |-> redirect_uri, request |-> request, exchanges |-> exchanges,
     elapsed |-> elapsed, provider |-> provider, token_response |-> token_response,
     exc |-> exc, raisedIn |-> raisedIn, log |-> log, response |-> response]

\* The locals of an invocation of lambda_handler(e, context) at its entry
EntryLocals(e) ==
    [event |-> e, pc |-> "start", params |-> NoParams, config |-> NoConfig,
     state_data |-> JNull, code_verifier |-> Absent,
     redirect_uri |-> NoUri, request |-> NoRequest, exchanges |-> 0,
     elapsed |-> 0, provider |-> NotAnswered, token_response |-> JNull,
     exc |-> NoExc, raisedIn |-> "none", log |-> <<>>, response |-> NoResponse]

\* The invocation with locals t is the one that runs
Run(t) ==
    /\ event' = t.event /\ pc' = t.pc /\ params' = t.params /\ config' = t.config
    /\ state_data' = t.state_data /\ code_verifier' = t.code_verifier
    /\ redirect_uri' = t.redirect_uri /\ request' = t.request
    /\ exchanges' = t.exchanges /\ elapsed' = t.elapsed /\ provider' = t.provider
    /\ token_response' = t.token_response /\ exc' = t.exc /\ raisedIn' = t.raisedIn
    /\ log' = t.log /\ response' = t.response

\* How an invocation with locals t ended
Ending(t) ==
    [ran |-> TRUE, event |-> t.event, provider |-> t.provider, pc |-> t.pc,
     exc |-> t.exc, request |-> t.request, response |-> t.response]

EventWith(q, frontend) ==
    [shape |-> "ok",
     querystring |-> QsStr(q),
     headers |-> [dict |-> TRUE,
                  entries |-> [n \in HeaderNames |->
                      CASE n = "x-oauth-client-id" -> HValue("client-1")
                        [] n = "x-oauth-client-secret" -> HValue("secret-1")
                        [] n = "x-oauth-frontend-url" -> frontend
                        [] n = "host" -> HValue("app.example")]]]

\* A callback for one deployment, and callbacks for another one and for none
ConcurrentEvents ==
    { EventWith(<< Pair("code", "c1"), Pair("state", "eyJjc3JmIjoieCIsInZlcmlmaWVyIjoidiJ9") >>,
                HValue("https://app.example")),
      EventWith(<< Pair("code", "c1"), Pair("state", "eyJjc3JmIjoieCIsInZlcmlmaWVyIjoidyJ9") >>,
                HValue("https://other.example")),
      EventWith(<< Pair("error", "access%20denied") >>, HAbsent) }

\* The event handled alone arrives again, on a fresh instance, while the
\* event e is being handled there too
InvokeTogether ==
    /\ Terminal
    /\ ~alone.ran
    /\ alone' = Ending(Locals)
    /\ Run(EntryLocals(event))
    /\ \E e \in ConcurrentEvents : parked' = [there |-> TRUE, locals |-> EntryLocals(e)]
    /\ _cached_oauth_config' = NoConfig
    /\ _secrets_client' = "none"
    /\ UNCHANGED <<callers, populated>>

\* The running invocation is suspended and the other one goes on
Switch ==
    /\ parked.there
    /\ parked' = [there |-> TRUE, locals |-> Locals]
    /\ Run(parked.locals)
    /\ UNCHANGED <<_cached_oauth_config, _secrets_client, callers, populated, alone>>

ConcurrentNext == Next \/ InvokeTogether \/ Switch

InitConcurrent ==
    /\ event \in ConcurrentEvents
    /\ InitLocals
    /\ InitInstance

ConcurrentSpec == InitConcurrent /\ [][ConcurrentNext]_vars

\* The invocation with locals t ended as the one that ran alone, if it had
\* the same event and the same answer of the provider
AsAlone(t) ==
    (t.pc \in {"done", "crashed"} /\ t.event = alone.event /\ t.provider = alone.provider) =>
        /\ t.pc = alone.pc
        /\ t.exc = alone.exc
        /\ t.request = alone.request
        /\ t.response = alone.response

\* C25: invocations are independent: whatever other invocation is under way
\* and however the steps of the two interleave, an invocation ends in the
\* response (and sends the token request) it ends in when it runs alone on
\* the same event with the same answer of the provider.
C25_InvocationsIndependent ==
    (alone.ran /\ parked.there) => AsAlone(Locals) /\ AsAlone(parked.locals)

C25_Witness ==
    /\ alone.ran /\ parked.there
    /\ Done /\ event = alone.event /\ HasCookie(response) /\ response = alone.response
    /\ parked.locals.pc = "done"
    /\ parked.locals.event # event
    /\ parked.locals.exchanges = 1
    /\ Len(parked.locals.log) > 0 /\ Len(log) > 0

(***************************************************************************)
(* Two invocations one after the other whose events differ at most in the  *)
(* csrf value inside the state blob (no csrf, "x" or "y", next to the same *)
(* verifier).                                                              *)
(***************************************************************************)
TwinEvents ==
    { EventWith(<< Pair("code", "c1"), Pair("state", b) >>, HValue("https://app.example")) :
        b \in ValidBlobs }

\* The JSON object a valid state blob carries
StateObject(e) == json_loads(utf8_decode(b64decode(QueryParamOf(e, "state")).val).val).val

\* e and d are the same event but for the csrf value in the state blob
CsrfVariants(e, d) ==
    /\ e.headers = d.headers
    /\ QueryParamOf(e, "code") = QueryParamOf(d, "code")
    /\ [StateObject(e).f EXCEPT !.csrf = Absent] = [StateObject(d).f EXCEPT !.csrf = Absent]

\* The handler is invoked again, for an event that differs from the one it
\* has just handled in the csrf value only
InvokeAgain ==
    /\ Terminal
    /\ ~alone.ran
    /\ alone' = Ending(Locals)
    /\ \E e \in TwinEvents : CsrfVariants(e, event) /\ Run(EntryLocals(e))
    /\ UNCHANGED <<_cached_oauth_config, _secrets_client, callers, populated, parked>>

TwinNext == Next \/ InvokeAgain

InitTwin ==
    /\ event \in TwinEvents
    /\ InitLocals
    /\ InitInstance

TwinSpec == InitTwin /\ [][TwinNext]_vars

\* C28: the csrf field of the state blob has no influence on the outcome: two
\* invocations whose events differ only in the csrf value inside the state
\* blob (a missing csrf included) and that get the same answer from the
\* provider end in the same response and send the same token request, in
\* lambda_handler and in the development server alike.
C28_CsrfHasNoInfluence ==
    (alone.ran /\ CsrfVariants(event, alone.event)) =>
        /\ (Terminal /\ provider = alone.provider) =>
              /\ pc = alone.pc
              /\ response = alone.response
              /\ request = alone.request
        /\ \A p \in ProviderOutcomes :
              oauth_callback(event.querystring, p) =
                  oauth_callback(alone.event.querystring, p)

C28_Witness ==
    /\ alone.ran
    /\ QueryParamOf(alone.event, "state") = "eyJ2ZXJpZmllciI6InYifQ=="
    /\ QueryParam("state") = "eyJjc3JmIjoieSIsInZlcmlmaWVyIjoidiJ9"
    /\ Done /\ provider = alone.provider
    /\ HasCookie(response) /\ response = alone.response
    /\ request = alone.request /\ exchanges = 1

(***************************************************************************)
(* C31 .. C32                                                              *)
(***************************************************************************)
\* Bodies that are no JSON text: markup, and bytes that are no UTF-8
UnparseableBodies == { "<html>Bad Gateway</html>", "\\xff" }

\* C31: a 2xx answer of the provider whose body cannot be parsed as JSON ends
\* the invocation in oauth_error=network_error, the code of a transport
\* failure, not in token_exchange_failed, and sets no cookie.
C31_UnparseableSuccessBody ==
    (Terminal /\ provider.status = "200" /\ provider.body \in UnparseableBodies) =>
        /\ Done
        /\ OAuthError(response) = "network_error"
        /\ ~HasCookie(response)

C31_Witness ==
    /\ Done
    /\ provider = [status |-> "200", body |-> "<html>Bad Gateway</html>"]
    /\ exchanges = 1
    /\ OAuthError(response) = "network_error"
    /\ ~HasCookie(response)

\* The call c went to the secret store and the store call raised
FetchFailed(c) == callers[c].store_calls = 1 /\ callers[c].secret_string = NoSecret

\* No call has got as far as assigning the cache
NoneSucceeded ==
    \A c \in Callers :
        \/ ~loads_secret(callers[c].secret_string).ok
        \/ callers[c].pc = "loads"

\* C32: a failed secret fetch does not populate the cache: the call whose
\* store call raised returns the default configuration (empty client_id and
\* client_secret, the default frontend URL) instead of raising, the cache
\* stays unset as long as no call has fetched a configuration, and a call made
\* after the failed one goes to the store again.
C32_FailedFetchNotCached ==
    /\ \A c \in Callers :
          FetchFailed(c) =>
              /\ callers[c].pc \in {"except", "done"}
              /\ callers[c].pc = "done" =>
                    callers[c].ret = [client_id |-> "", client_secret |-> "",
                                      frontend_url |-> "http://localhost:5173"]
    /\ NoneSucceeded => _cached_oauth_config = NoConfig
    /\ \A d \in Callers :
          (callers[d].retry /\ NoneSucceeded) =>
              /\ ~callers[d].late
              /\ callers[d].pc \in {"check", "client", "fetch"} \/ callers[d].store_calls = 1

C32_Witness ==
    \E c, d \in Callers :
        /\ FetchFailed(c) /\ callers[c].pc = "done" /\ callers[c].ret = FallbackConfig
        /\ callers[d].retry /\ callers[d].pc = "done" /\ callers[d].store_calls = 1
        /\ callers[d].ret \in StoredConfigs
        /\ _cached_oauth_config = callers[d].ret

====
